---- MODULE Spec2Model ----
(***************************************************************************)
(* The voice-call signaling engine of CallProvider (contexts/CallContext): *)
(* two browser processes, the shared 'calls' collection they use as the    *)
(* rendezvous channel, and the media/transport objects each process owns.  *)
(* An async command is a task that moves from one await to the next; the   *)
(* steps between two awaits are one action.                                *)
(***************************************************************************)
EXTENDS Integers, Sequences, FiniteSets, TLC

\* ------------------------------------------------------------------ bounds
\* Call documents ever created, all callers together.
MaxCalls == 2
\* Streams / peer connections one process holds unreleased at a time.
MaxSessions == 2
\* ICE candidates one peer connection discovers.
MaxCands == 1
\* Async commands and snapshot handlers one process has suspended at an await.
MaxInFlight == 1
\* Commands among them: the user waits for a command to settle before the next.
MaxCommands == 1
\* Places for suspended tasks per process: one more than MaxInFlight, for the
\* command that is invoked while another one is still awaiting.
MaxSlots == 2
\* ICE candidates a peer connection discovers where the order matters.
MaxTrickled == 2
\* The count kept of how often the watcher announced one document stops here.
MaxAnnounced == 2

\* ------------------------------------------------------------------ values
\* The logged-in users; each runs one CallProvider (uid and username coincide).
Procs == {"A", "B"}

\* The users who place calls, each to the other user.
Callers == {"A"}

\* A username typed into startCall that no user has.
Unknown == {"nobody"}

\* `${userProfile.uid}_${Date.now()}`: the caller and its clock's reading.
CallIds == [uid : Procs, ts : 1 .. MaxCalls]

\* callId = null.
NoCall == [uid |-> "", ts |-> 0]

Slots == 1 .. MaxSlots
SessionIds == 1 .. MaxSessions

\* An absent session description (offer / answer not set).
NoDesc == [type |-> "none"]

\* A call document that does not exist (snapshot.exists() is false).
NoRecord == [exists |-> FALSE]

\* incomingCall = null.
NoIncoming == [callId |-> NoCall]

\* A free task slot.
NoTask == [op |-> "none"]

\* The callState every reset writes: callId null, status idle, not muted.
IdleState ==
  [callId |-> NoCall, caller |-> "", callee |-> "", status |-> "idle",
   isMuted |-> FALSE]

\* A MediaStream just returned by getUserMedia together with the
\* RTCPeerConnection built for it: capturing, track enabled, connection open.
NewSession ==
  [live |-> TRUE, enabled |-> TRUE, open |-> TRUE,
   localDescription |-> NoDesc, remoteDescription |-> NoDesc,
   applied |-> << >>, repeated |-> FALSE, iceCandidates |-> << >>, found |-> 0,
   callDocRef |-> NoCall, field |-> "none"]

\* The same pair after track.stop() and close(): nothing of it can act again,
\* and its place in `sessions` is free for the next pair.
ClosedSession ==
  [live |-> FALSE, enabled |-> FALSE, open |-> FALSE,
   localDescription |-> NoDesc, remoteDescription |-> NoDesc,
   applied |-> << >>, repeated |-> FALSE, iceCandidates |-> << >>, found |-> 0,
   callDocRef |-> NoCall, field |-> "none"]

VARIABLES
  callState,          \* useState<CallState> of each process
  incomingCall,       \* useState incomingCall of each process
  localStreamRef,     \* localStreamRef.current: 0 (null) or a session index
  peerConnectionRef,  \* peerConnectionRef.current: 0 (null) or a session index
  sessions,           \* the streams / peer connections of the process
  tasks,              \* the suspended async commands and handlers
  surfaced,           \* the error the last command threw to its caller
  records,            \* the 'calls' collection
  nextCallId,         \* Date.now() of the next startCall, per process
  docDirty,           \* the per-call subscription has an undelivered snapshot
  watchSeen,          \* result set of the incoming-call query last delivered
  announced           \* how often the watcher announced each document (history)

vars ==
  <<callState, incomingCall, localStreamRef, peerConnectionRef, sessions, tasks,
    surfaced, records, nextCallId, docDirty, watchSeen, announced>>

\* ------------------------------------------------------------------ helpers
FreeSlots(p) == {t \in Slots : tasks[p][t] = NoTask}

\* Suspend a new task of p in its lowest free slot.
Spawn(p, task) ==
  LET t == CHOOSE i \in FreeSlots(p) : \A j \in FreeSlots(p) : i <= j
  IN  [tasks EXCEPT ![p][t] = task]

\* The task in slot t of p has run to its end.
Finish(p, t) == [tasks EXCEPT ![p][t] = NoTask]

\* The commands of p that have not settled.
CommandsInFlight(p) ==
  {t \in Slots : tasks[p][t].op \in {"startCall", "acceptCall", "endCall"}}

\* Within the bounds, one more task of p may suspend.
TaskBudget(p) ==
  /\ FreeSlots(p) # {}
  /\ Cardinality(Slots \ FreeSlots(p)) < MaxInFlight

\* Within the bounds, p may issue a command that suspends.
CommandBudget(p) ==
  TaskBudget(p) /\ Cardinality(CommandsInFlight(p)) < MaxCommands

\* The tasks of p waiting at a given step.
AtStep(p, op, step) ==
  {t \in Slots : tasks[p][t].op = op /\ tasks[p][t].step = step}

\* signalingState of a peer connection.
SignalingState(s) ==
  IF ~s.open THEN "closed"
  ELSE IF s.localDescription.type = "offer" /\ s.remoteDescription.type = "none"
       THEN "have-local-offer"
  ELSE "stable"

\* track.stop() on stream ls and close() on connection pc of a session list.
Released(ss, ls, pc) ==
  [i \in DOMAIN ss |-> IF i = ls \/ i = pc THEN ClosedSession ELSE ss[i]]

\* A handler suspended in setRemoteDescription on connection pc finds it closed
\* (pc 0) once close() ran; the other tasks hold no connection of their own.
Orphaned(ts, pc) ==
  [t \in DOMAIN ts |->
     IF ts[t].op = "onSnapshot" /\ ts[t].pc = pc /\ pc # 0
     THEN [ts[t] EXCEPT !.pc = 0] ELSE ts[t]]

\* The lowest free place of a session list.
FreeSession(ss) ==
  CHOOSE i \in DOMAIN ss : /\ ~ss[i].live /\ ~ss[i].open
                           /\ \A j \in DOMAIN ss : j < i => ss[j].live \/ ss[j].open

\* onSnapshot of doc(db,'calls',callId): the effect re-subscribes when callId
\* changes (a first snapshot follows), and every write to the watched document
\* is followed by a snapshot.
Resubscribe(newState, written) ==
  [q \in Procs |->
     IF newState[q].callId = NoCall THEN FALSE
     ELSE \/ newState[q].callId # callState[q].callId
          \/ newState[q].callId \in written
          \/ docDirty[q]]

\* The elements of a sequence.
Range(seq) == {seq[i] : i \in DOMAIN seq}

\* addIceCandidate(c) on a connection: rejected (and logged by the caller's
\* catch) while there is no remote description, or when the connection cannot
\* use the candidate. Otherwise the candidate joins the connection's remote
\* candidates, kept here in the order they first came; `repeated` records that
\* a candidate was handed over that it already had.
AddIceCandidate(s, c) ==
  IF s.remoteDescription.type = "none" \/ ~c.ok THEN s
  ELSE IF c \in Range(s.applied) THEN [s EXCEPT !.repeated = TRUE]
  ELSE [s EXCEPT !.applied = Append(@, c)]

\* `for (const candidate of candidates) await addIceCandidate(candidate)`.
RECURSIVE AddIceCandidates(_, _)
AddIceCandidates(s, cands) ==
  IF cands = << >> THEN s
  ELSE AddIceCandidates(AddIceCandidate(s, Head(cands)), Tail(cands))

\* ------------------------------------------------------------------ init
Init ==
  /\ callState = [p \in Procs |-> IdleState]
  /\ incomingCall = [p \in Procs |-> NoIncoming]
  /\ localStreamRef = [p \in Procs |-> 0]
  /\ peerConnectionRef = [p \in Procs |-> 0]
  /\ sessions = [p \in Procs |-> [i \in SessionIds |-> ClosedSession]]
  /\ tasks = [p \in Procs |-> [t \in Slots |-> NoTask]]
  /\ surfaced = [p \in Procs |-> "none"]
  /\ records = [id \in CallIds |-> NoRecord]
  /\ nextCallId = [p \in Procs |-> 1]
  /\ docDirty = [p \in Procs |-> FALSE]
  /\ watchSeen = [p \in Procs |-> {}]
  /\ announced = [p \in Procs |-> [id \in CallIds |-> 0]]

\* ------------------------------------------------------------------ cleanup
\* cleanup(): stop the referenced stream, close the referenced connection,
\* null both refs. `ts` is the task table the calling step leaves behind.
cleanup(p, ts) ==
  /\ sessions' = [sessions EXCEPT
                    ![p] = Released(@, localStreamRef[p], peerConnectionRef[p])]
  /\ localStreamRef' = [localStreamRef EXCEPT ![p] = 0]
  /\ peerConnectionRef' = [peerConnectionRef EXCEPT ![p] = 0]
  /\ tasks' = [ts EXCEPT ![p] = Orphaned(@, peerConnectionRef[p])]

\* ------------------------------------------------------------------ startCall
\* Room left, within the bounds, for one more stream / connection of p.
SessionBudget(p) ==
  Cardinality({i \in SessionIds : sessions[p][i].live \/ sessions[p][i].open})
    + Cardinality(AtStep(p, "startCall", "getUserMedia")
                    \cup AtStep(p, "acceptCall", "getUserMedia"))
    < MaxSessions

\* Room left, within the bounds, for one more call document.
CallBudget ==
  LET waiting == {q \in Procs : AtStep(q, "startCall", "getUserMedia") # {}}
      n[S \in SUBSET Procs] ==
        IF S = {} THEN 0
        ELSE LET q == CHOOSE x \in S : TRUE
             IN  Cardinality(AtStep(q, "startCall", "getUserMedia")) + n[S \ {q}]
      made[S \in SUBSET Procs] ==
        IF S = {} THEN 0
        ELSE LET q == CHOOSE x \in S : TRUE
             IN  (nextCallId[q] - 1) + made[S \ {q}]
  IN  made[Procs] + n[waiting] < MaxCalls

\* The only test startCall makes before it acts: `if (!userProfile) return`.
\* Every process here is logged in, whatever its call status.
StartCallGuard(p) == p \in Procs

\* The first lines of startCall(username): past the guard it calls
\* getUserMedia and suspends at that await.
StartCallInvoke(p, username) ==
  /\ SessionBudget(p) /\ CallBudget
  /\ StartCallGuard(p)
  /\ tasks' = Spawn(p, [op |-> "startCall", step |-> "getUserMedia",
                        username |-> username])
  /\ UNCHANGED <<callState, incomingCall, localStreamRef, peerConnectionRef,
                 sessions, surfaced, records, nextCallId, docDirty, watchSeen,
                 announced>>

\* startCall(username) is invoked and suspends at `await getUserMedia`.
StartCallBegin(p, username) ==
  /\ CommandBudget(p)
  /\ StartCallInvoke(p, username)

\* startCall(username) is invoked while another startCall of the process is
\* still awaiting (Enter pressed again in the dialog before the first settled).
StartCallNested(p, username) ==
  /\ FreeSlots(p) # {}
  /\ \E t \in Slots : tasks[p][t].op = "startCall"
  /\ StartCallInvoke(p, username)

\* A faulty callId, made of the clock's reading alone: two users whose clocks
\* agree get the same id. The property of a glare (C18) has to tell it from the
\* real one.
NewCallIdClockOnly(p) == [uid |-> "A", ts |-> nextCallId[p]]

\* `${userProfile.uid}_${Date.now()}` at the time startCall reaches that line.
NewCallId(p) == [uid |-> p, ts |-> nextCallId[p]]

\* getUserMedia resolved: both refs are overwritten with the new stream and a
\* new connection, onicecandidate is installed for the new callId, the offer is
\* created and set as local description, and setDoc is awaited.
StartCallMediaOk(p, t) ==
  /\ tasks[p][t].op = "startCall" /\ tasks[p][t].step = "getUserMedia"
  /\ LET s == FreeSession(sessions[p])
         callId == NewCallId(p)
         offer == [type |-> "offer", by |-> p, for |-> callId]
     IN  /\ sessions' = [sessions EXCEPT ![p][s] =
               [NewSession EXCEPT !.localDescription = offer,
                                  !.callDocRef = callId,
                                  !.field = "iceCandidates"]]
         /\ localStreamRef' = [localStreamRef EXCEPT ![p] = s]
         /\ peerConnectionRef' = [peerConnectionRef EXCEPT ![p] = s]
         /\ tasks' = [tasks EXCEPT ![p][t] =
               [op |-> "startCall", step |-> "setDoc",
                username |-> tasks[p][t].username,
                callId |-> callId, offer |-> offer]]
  /\ nextCallId' = [nextCallId EXCEPT ![p] = @ + 1]
  /\ UNCHANGED <<callState, incomingCall, surfaced, records, docDirty, watchSeen,
                 announced>>

\* getUserMedia rejected: the catch block logs, runs cleanup() on whatever the
\* refs hold, and the promise resolves.
StartCallMediaFail(p, t) ==
  /\ tasks[p][t].op = "startCall" /\ tasks[p][t].step = "getUserMedia"
  /\ cleanup(p, Finish(p, t))
  /\ surfaced' = [surfaced EXCEPT ![p] = "none"]
  /\ UNCHANGED <<callState, incomingCall, records, nextCallId, docDirty, watchSeen,
                 announced>>

\* createOffer or setLocalDescription rejected after the refs were overwritten:
\* cleanup() releases the new pair; what the refs held before stays as it was,
\* with no ref left to it.
StartCallOfferFail(p, t) ==
  /\ tasks[p][t].op = "startCall" /\ tasks[p][t].step = "getUserMedia"
  /\ UNCHANGED sessions
  /\ localStreamRef' = [localStreamRef EXCEPT ![p] = 0]
  /\ peerConnectionRef' = [peerConnectionRef EXCEPT ![p] = 0]
  /\ tasks' = Finish(p, t)
  /\ surfaced' = [surfaced EXCEPT ![p] = "none"]
  /\ UNCHANGED <<callState, incomingCall, records, nextCallId, docDirty, watchSeen,
                 announced>>

\* A faulty setDoc, which leaves the offer out of the document: the property of
\* a placed call (C7) has to tell it from the real one.
CallDocWithoutOffer(p, username, offer) ==
  [exists |-> TRUE, callerId |-> p, callerUsername |-> p,
   calleeUsername |-> username, offer |-> NoDesc, answer |-> NoDesc,
   status |-> "calling", iceCandidates |-> << >>, answerIceCandidates |-> << >>]

\* The document startCall writes with setDoc.
CallDoc(p, username, offer) ==
  [exists |-> TRUE, callerId |-> p, callerUsername |-> p,
   calleeUsername |-> username, offer |-> offer, answer |-> NoDesc,
   status |-> "calling", iceCandidates |-> << >>, answerIceCandidates |-> << >>]

\* The callState startCall sets once setDoc resolved.
CallingState(p, callId, username) ==
  [callId |-> callId, caller |-> p, callee |-> username, status |-> "calling",
   isMuted |-> FALSE]

\* setDoc resolved: the document exists and callState becomes calling.
StartCallWriteOk(p, t) ==
  /\ tasks[p][t].op = "startCall" /\ tasks[p][t].step = "setDoc"
  /\ LET task == tasks[p][t]
         newState == [callState EXCEPT ![p] =
                        CallingState(p, task.callId, task.username)]
     IN  /\ records' = [records EXCEPT ![task.callId] =
                          CallDoc(p, task.username, task.offer)]
         /\ callState' = newState
         /\ docDirty' = Resubscribe(newState, {task.callId})
  /\ tasks' = Finish(p, t)
  /\ surfaced' = [surfaced EXCEPT ![p] = "none"]
  /\ UNCHANGED <<incomingCall, localStreamRef, peerConnectionRef, sessions,
                 nextCallId, watchSeen,
                 announced>>

\* setDoc rejected: catch, cleanup(), the promise resolves.
StartCallWriteFail(p, t) ==
  /\ tasks[p][t].op = "startCall" /\ tasks[p][t].step = "setDoc"
  /\ cleanup(p, Finish(p, t))
  /\ surfaced' = [surfaced EXCEPT ![p] = "none"]
  /\ UNCHANGED <<callState, incomingCall, records, nextCallId, docDirty, watchSeen,
                 announced>>

\* ------------------------------------------------------------------ ICE
\* onicecandidate of connection s of p: push the candidate on the closure's
\* array and updateDoc the whole array into the connection's field of its call
\* document; updateDoc of a missing document rejects and writes nothing.
OnIceCandidate(p, s, ok) ==
  /\ sessions[p][s].open
  /\ sessions[p][s].localDescription.type # "none"
  /\ LET ses == sessions[p][s]
         cand == [by |-> p, for |-> ses.callDocRef, n |-> ses.found + 1,
                  ok |-> ok]
         list == Append(ses.iceCandidates, cand)
         id == ses.callDocRef
     IN  /\ sessions' = [sessions EXCEPT ![p][s].iceCandidates = list,
                                         ![p][s].found = @ + 1]
         /\ IF id # NoCall /\ records[id].exists
            THEN /\ records' = [records EXCEPT ![id] =
                      IF ses.field = "iceCandidates"
                      THEN [@ EXCEPT !.iceCandidates = list]
                      ELSE [@ EXCEPT !.answerIceCandidates = list]]
                 /\ docDirty' = Resubscribe(callState, {id})
            ELSE UNCHANGED <<records, docDirty>>
  /\ UNCHANGED <<callState, incomingCall, localStreamRef, peerConnectionRef,
                 tasks, surfaced, nextCallId, watchSeen,
                 announced>>

\* A connection discovers one of its first MaxCands candidates.
Discover(p, s) ==
  /\ sessions[p][s].found < MaxCands
  /\ OnIceCandidate(p, s, TRUE)

\* A connection goes on discovering, up to MaxTrickled candidates.
DiscoverAgain(p, s) ==
  /\ sessions[p][s].found >= MaxCands
  /\ sessions[p][s].found < MaxTrickled
  /\ OnIceCandidate(p, s, TRUE)

\* A connection discovers and publishes a candidate that the connection of the
\* other side will refuse (addIceCandidate rejects it).
DiscoverRejected(p, s) ==
  /\ sessions[p][s].found < MaxTrickled
  /\ OnIceCandidate(p, s, FALSE)

\* ------------------------------------------------------------------ endCall
\* endCall with callState.callId null returns at once.
EndCallIdle(p) ==
  /\ callState[p].callId = NoCall
  /\ surfaced' = [surfaced EXCEPT ![p] = "none"]
  /\ UNCHANGED <<callState, incomingCall, localStreamRef, peerConnectionRef,
                 sessions, tasks, records, nextCallId, docDirty, watchSeen,
                 announced>>

\* endCall: deleteDoc of the watched document is issued and the command
\* suspends. Either the delete lands, or it is refused and writes nothing.
EndCallBegin(p) ==
  /\ CommandBudget(p)
  /\ callState[p].callId # NoCall
  /\ \E landed \in BOOLEAN :
       /\ records' = IF landed
                     THEN [records EXCEPT ![callState[p].callId] = NoRecord]
                     ELSE records
       /\ docDirty' = IF landed
                      THEN Resubscribe(callState, {callState[p].callId})
                      ELSE docDirty
       /\ tasks' = Spawn(p, [op |-> "endCall", step |-> "deleteDoc",
                             callId |-> callState[p].callId, landed |-> landed])
  /\ UNCHANGED <<callState, incomingCall, localStreamRef, peerConnectionRef,
                 sessions, surfaced, nextCallId, watchSeen,
                 announced>>

\* deleteDoc rejected: the catch block only logs, and the promise resolves with
\* the refs, callState and incomingCall as they were.
EndCallDeleteFail(p, t) ==
  /\ tasks[p][t].op = "endCall" /\ ~tasks[p][t].landed
  /\ tasks' = Finish(p, t)
  /\ surfaced' = [surfaced EXCEPT ![p] = "none"]
  /\ UNCHANGED <<callState, incomingCall, localStreamRef, peerConnectionRef,
                 sessions, records, nextCallId, docDirty, watchSeen,
                 announced>>

\* deleteDoc resolved: cleanup(), callState reset, incomingCall cleared.
EndCallFinish(p, t) ==
  /\ tasks[p][t].op = "endCall" /\ tasks[p][t].landed
  /\ cleanup(p, Finish(p, t))
  /\ callState' = [callState EXCEPT ![p] = IdleState]
  /\ incomingCall' = [incomingCall EXCEPT ![p] = NoIncoming]
  /\ docDirty' = [docDirty EXCEPT ![p] = FALSE]
  /\ surfaced' = [surfaced EXCEPT ![p] = "none"]
  /\ UNCHANGED <<records, nextCallId, watchSeen,
                 announced>>

\* ------------------------------------------------------------------ acceptCall
\* acceptCall with no pending invitation returns at once.
AcceptCallIdle(p) ==
  /\ incomingCall[p] = NoIncoming
  /\ surfaced' = [surfaced EXCEPT ![p] = "none"]
  /\ UNCHANGED <<callState, incomingCall, localStreamRef, peerConnectionRef,
                 sessions, tasks, records, nextCallId, docDirty, watchSeen,
                 announced>>

\* acceptCall is invoked with the invitation its closure holds and suspends at
\* `await getUserMedia`.
AcceptCallBegin(p) ==
  /\ CommandBudget(p) /\ SessionBudget(p)
  /\ incomingCall[p] # NoIncoming
  /\ tasks' = Spawn(p, [op |-> "acceptCall", step |-> "getUserMedia",
                        incomingCall |-> incomingCall[p]])
  /\ UNCHANGED <<callState, incomingCall, localStreamRef, peerConnectionRef,
                 sessions, surfaced, records, nextCallId, docDirty, watchSeen,
                 announced>>

\* getUserMedia resolved: both refs are overwritten with the new stream and a
\* new connection; getDocs of the invitation's document is awaited.
AcceptCallMediaOk(p, t) ==
  /\ tasks[p][t].op = "acceptCall" /\ tasks[p][t].step = "getUserMedia"
  /\ sessions' = [sessions EXCEPT ![p][FreeSession(sessions[p])] = NewSession]
  /\ localStreamRef' = [localStreamRef EXCEPT ![p] = FreeSession(sessions[p])]
  /\ peerConnectionRef' = [peerConnectionRef EXCEPT ![p] = FreeSession(sessions[p])]
  /\ tasks' = [tasks EXCEPT ![p][t].step = "getDocs"]
  /\ UNCHANGED <<callState, incomingCall, surfaced, records, nextCallId, docDirty,
                 watchSeen,
                 announced>>

\* getUserMedia rejected: catch, cleanup(), the promise resolves; callState and
\* incomingCall are not touched.
AcceptCallMediaFail(p, t) ==
  /\ tasks[p][t].op = "acceptCall" /\ tasks[p][t].step = "getUserMedia"
  /\ cleanup(p, Finish(p, t))
  /\ surfaced' = [surfaced EXCEPT ![p] = "none"]
  /\ UNCHANGED <<callState, incomingCall, records, nextCallId, docDirty, watchSeen,
                 announced>>

\* getDocs found no such document: `if (callDoc.empty) return`, with the stream
\* and the connection left as they are.
AcceptCallReadEmpty(p, t) ==
  /\ tasks[p][t].op = "acceptCall" /\ tasks[p][t].step = "getDocs"
  /\ ~records[tasks[p][t].incomingCall.callId].exists
  /\ tasks' = Finish(p, t)
  /\ surfaced' = [surfaced EXCEPT ![p] = "none"]
  /\ UNCHANGED <<callState, incomingCall, localStreamRef, peerConnectionRef,
                 sessions, records, nextCallId, docDirty, watchSeen,
                 announced>>

\* A faulty acceptCall, which hands the caller's candidates to the connection
\* before the offer is set: addIceCandidate rejects each of them. The property
\* of acceptCall's order (C25) has to tell it from the real one.
AnsweredCandidatesFirst(s, id, callData, answer) ==
  [AddIceCandidates(s, callData.iceCandidates)
     EXCEPT !.remoteDescription = callData.offer,
            !.iceCandidates = callData.iceCandidates,
            !.callDocRef = id,
            !.field = "answerIceCandidates",
            !.localDescription = answer]

\* A faulty acceptCall, whose onicecandidate publishes to the caller's field.
\* The property of the two fields (C27) has to tell it from the real one.
AnsweredCallerField(s, id, callData, answer) ==
  [AddIceCandidates([s EXCEPT !.remoteDescription = callData.offer],
                    callData.iceCandidates)
     EXCEPT !.iceCandidates = callData.iceCandidates,
            !.callDocRef = id,
            !.field = "iceCandidates",
            !.localDescription = answer]

\* The callee's connection once acceptCall has applied the stored offer, taken
\* the caller's candidate array as its own, applied those candidates in stored
\* order and set its answer as local description.
Answered(s, id, callData, answer) ==
  [AddIceCandidates([s EXCEPT !.remoteDescription = callData.offer],
                    callData.iceCandidates)
     EXCEPT !.iceCandidates = callData.iceCandidates,
            !.callDocRef = id,
            !.field = "answerIceCandidates",
            !.localDescription = answer]

\* getDocs returned the document: offer applied, candidates applied, answer
\* created on the connection the ref holds now; updateDoc is awaited.
AcceptCallReadOk(p, t) ==
  /\ tasks[p][t].op = "acceptCall" /\ tasks[p][t].step = "getDocs"
  /\ records[tasks[p][t].incomingCall.callId].exists
  /\ peerConnectionRef[p] # 0
  /\ SignalingState(sessions[p][peerConnectionRef[p]]) = "stable"
  /\ LET id == tasks[p][t].incomingCall.callId
         pc == peerConnectionRef[p]
         answer == [type |-> "answer", by |-> p, for |-> id]
     IN  /\ sessions' = [sessions EXCEPT ![p][pc] =
                           Answered(@, id, records[id], answer)]
         /\ tasks' = [tasks EXCEPT ![p][t] =
                        [op |-> "acceptCall", step |-> "updateDoc",
                         incomingCall |-> tasks[p][t].incomingCall,
                         answer |-> answer]]
  /\ UNCHANGED <<callState, incomingCall, localStreamRef, peerConnectionRef,
                 surfaced, records, nextCallId, docDirty, watchSeen,
                 announced>>

\* getDocs rejected, the ref was nulled meanwhile, or setRemoteDescription /
\* createAnswer / setLocalDescription rejected: catch, cleanup(), the promise
\* resolves; callState and incomingCall are not touched.
AcceptCallReadFail(p, t) ==
  /\ tasks[p][t].op = "acceptCall" /\ tasks[p][t].step = "getDocs"
  /\ cleanup(p, Finish(p, t))
  /\ surfaced' = [surfaced EXCEPT ![p] = "none"]
  /\ UNCHANGED <<callState, incomingCall, records, nextCallId, docDirty, watchSeen,
                 announced>>

\* The callState acceptCall sets once updateDoc resolved.
ConnectedState(p, ic) ==
  [callId |-> ic.callId, caller |-> ic.callerUsername, callee |-> p,
   status |-> "connected", isMuted |-> FALSE]

\* updateDoc resolved: the document carries the answer and status connected,
\* callState becomes connected and the invitation is cleared.
AcceptCallWriteOk(p, t) ==
  /\ tasks[p][t].op = "acceptCall" /\ tasks[p][t].step = "updateDoc"
  /\ records[tasks[p][t].incomingCall.callId].exists
  /\ LET ic == tasks[p][t].incomingCall
         newState == [callState EXCEPT ![p] = ConnectedState(p, ic)]
     IN  /\ records' = [records EXCEPT ![ic.callId].answer = tasks[p][t].answer,
                                       ![ic.callId].status = "connected"]
         /\ callState' = newState
         /\ docDirty' = Resubscribe(newState, {ic.callId})
  /\ incomingCall' = [incomingCall EXCEPT ![p] = NoIncoming]
  /\ tasks' = Finish(p, t)
  /\ surfaced' = [surfaced EXCEPT ![p] = "none"]
  /\ UNCHANGED <<localStreamRef, peerConnectionRef, sessions, nextCallId, watchSeen,
                 announced>>

\* updateDoc rejected (the document is gone, or the write is refused): catch,
\* cleanup(), the promise resolves; callState and incomingCall are not touched.
AcceptCallWriteFail(p, t) ==
  /\ tasks[p][t].op = "acceptCall" /\ tasks[p][t].step = "updateDoc"
  /\ cleanup(p, Finish(p, t))
  /\ surfaced' = [surfaced EXCEPT ![p] = "none"]
  /\ UNCHANGED <<callState, incomingCall, records, nextCallId, docDirty, watchSeen,
                 announced>>

\* ------------------------------------------------------------------ rejectCall
\* rejectCall with no pending invitation returns at once.
RejectCallIdle(p) ==
  /\ incomingCall[p] = NoIncoming
  /\ surfaced' = [surfaced EXCEPT ![p] = "none"]
  /\ UNCHANGED <<callState, incomingCall, localStreamRef, peerConnectionRef,
                 sessions, tasks, records, nextCallId, docDirty, watchSeen,
                 announced>>

\* rejectCall: deleteDoc of the invitation's document, incomingCall cleared,
\* callState reset; cleanup() is not called.
RejectCall(p) ==
  /\ incomingCall[p] # NoIncoming
  /\ LET newState == [callState EXCEPT ![p] = IdleState]
     IN  /\ records' = [records EXCEPT ![incomingCall[p].callId] = NoRecord]
         /\ callState' = newState
         /\ docDirty' = Resubscribe(newState, {incomingCall[p].callId})
  /\ incomingCall' = [incomingCall EXCEPT ![p] = NoIncoming]
  /\ surfaced' = [surfaced EXCEPT ![p] = "none"]
  /\ UNCHANGED <<localStreamRef, peerConnectionRef, sessions, tasks, nextCallId,
                 watchSeen,
                 announced>>

\* rejectCall whose deleteDoc is rejected: the catch block only logs.
RejectCallDeleteFail(p) ==
  /\ incomingCall[p] # NoIncoming
  /\ surfaced' = [surfaced EXCEPT ![p] = "none"]
  /\ UNCHANGED <<callState, incomingCall, localStreamRef, peerConnectionRef,
                 sessions, tasks, records, nextCallId, docDirty, watchSeen,
                 announced>>

\* ------------------------------------------------------------------ toggleMute
\* toggleMute: flip the enabled flag of the referenced stream's audio track and
\* set isMuted to its negation; nothing happens without a stream.
ToggleMute(p) ==
  /\ localStreamRef[p] # 0
  /\ sessions' = [sessions EXCEPT ![p][localStreamRef[p]].enabled = ~@]
  /\ callState' = [callState EXCEPT
                     ![p].isMuted = sessions[p][localStreamRef[p]].enabled]
  /\ UNCHANGED <<incomingCall, localStreamRef, peerConnectionRef, tasks, surfaced,
                 records, nextCallId, docDirty, watchSeen,
                 announced>>

\* ------------------------------------------------------------------ incoming-call watcher
\* The documents the watcher's query matches: calleeUsername == own username
\* and status == 'calling'.
Qualifying(p) ==
  {id \in CallIds : /\ records[id].exists
                    /\ records[id].calleeUsername = p
                    /\ records[id].status = "calling"}

\* setIncomingCall / setCallState ran once more for each document of `added`.
Announce(counts, added) ==
  [id \in CallIds |->
     IF id \in added /\ counts[id] < MaxAnnounced THEN counts[id] + 1
     ELSE counts[id]]

\* A faulty watcher, which walks snapshot.docs instead of docChanges(): every
\* document of the result set is announced on every snapshot. The property of
\* announcing once (C13) has to tell it from the real one.
IncomingSnapshotEveryDoc(p) ==
  /\ Qualifying(p) # watchSeen[p]
  /\ watchSeen' = [watchSeen EXCEPT ![p] = Qualifying(p)]
  /\ announced' = [announced EXCEPT ![p] = Announce(@, Qualifying(p))]
  /\ IF Qualifying(p) = {}
     THEN UNCHANGED <<incomingCall, callState>>
     ELSE \E last \in Qualifying(p) :
            /\ incomingCall' = [incomingCall EXCEPT ![p] =
                 [callId |-> last,
                  callerUsername |-> records[last].callerUsername]]
            /\ callState' = [callState EXCEPT ![p].status = "incoming"]
  /\ UNCHANGED <<localStreamRef, peerConnectionRef, sessions, tasks, surfaced,
                 records, nextCallId, docDirty>>

\* A snapshot of the watcher's query: every document new to the result set is an
\* 'added' change; each sets incomingCall and status incoming, so the last one
\* of the snapshot is the one that stays. Other changes are ignored.
IncomingSnapshot(p) ==
  /\ Qualifying(p) # watchSeen[p]
  /\ watchSeen' = [watchSeen EXCEPT ![p] = Qualifying(p)]
  /\ announced' = [announced EXCEPT
                      ![p] = Announce(@, Qualifying(p) \ watchSeen[p])]
  /\ LET added == Qualifying(p) \ watchSeen[p]
     IN  IF added = {}
         THEN UNCHANGED <<incomingCall, callState>>
         ELSE \E last \in added :
                /\ incomingCall' = [incomingCall EXCEPT ![p] =
                     [callId |-> last,
                      callerUsername |-> records[last].callerUsername]]
                /\ callState' = [callState EXCEPT ![p].status = "incoming"]
  /\ UNCHANGED <<localStreamRef, peerConnectionRef, sessions, tasks, surfaced,
                 records, nextCallId, docDirty>>

\* ------------------------------------------------------------------ per-call subscription
\* The snapshot says the watched document is gone: cleanup(), callState reset,
\* incomingCall cleared.
DocDeleted(p) ==
  /\ callState[p].callId # NoCall /\ docDirty[p]
  /\ ~records[callState[p].callId].exists
  /\ cleanup(p, tasks)
  /\ callState' = [callState EXCEPT ![p] = IdleState]
  /\ incomingCall' = [incomingCall EXCEPT ![p] = NoIncoming]
  /\ docDirty' = [docDirty EXCEPT ![p] = FALSE]
  /\ UNCHANGED <<surfaced, records, nextCallId, watchSeen,
                 announced>>

\* `data.answer && peerConnectionRef.current &&
\*  !peerConnectionRef.current.currentRemoteDescription`
NeedsAnswer(p, data) ==
  /\ data.answer # NoDesc
  /\ peerConnectionRef[p] # 0
  /\ sessions[p][peerConnectionRef[p]].remoteDescription = NoDesc

\* The tail of a faulty handler, with no try/catch around addIceCandidate: the
\* first candidate the connection refuses ends the loop, and the candidates
\* behind it are not handed over. The property of the refused candidate (C26)
\* has to tell it from the real one.
CandidatesAddedNoCatch(ss, pc, data) ==
  LET cands == data.iceCandidates
      refused == {k \in 1 .. Len(cands) :
                    ss[pc].remoteDescription.type = "none" \/ ~cands[k].ok}
      first == CHOOSE k \in refused : \A j \in refused : k <= j
  IN  IF pc = 0 THEN ss
      ELSE IF refused = {} THEN [ss EXCEPT ![pc] = AddIceCandidates(@, cands)]
      ELSE [ss EXCEPT ![pc] = AddIceCandidates(@, SubSeq(cands, 1, first - 1))]

\* The tail of the handler: every candidate of data.iceCandidates is handed to
\* the connection the ref holds now, then status connected is copied from the
\* document.
CandidatesAdded(ss, pc, data) ==
  IF pc = 0 THEN ss
  ELSE [ss EXCEPT ![pc] = AddIceCandidates(@, data.iceCandidates)]

StatusCopied(state, data) ==
  IF data.status = "connected" THEN [state EXCEPT !.status = "connected"]
  ELSE state

\* A snapshot of the watched document with no answer to apply.
DocChanged(p) ==
  /\ callState[p].callId # NoCall /\ docDirty[p]
  /\ records[callState[p].callId].exists
  /\ ~NeedsAnswer(p, records[callState[p].callId])
  /\ LET data == records[callState[p].callId]
     IN  /\ sessions' = [sessions EXCEPT ![p] =
                           CandidatesAdded(@, peerConnectionRef[p], data)]
         /\ callState' = [callState EXCEPT ![p] = StatusCopied(@, data)]
  /\ docDirty' = [docDirty EXCEPT ![p] = FALSE]
  /\ UNCHANGED <<incomingCall, localStreamRef, peerConnectionRef, tasks, surfaced,
                 records, nextCallId, watchSeen,
                 announced>>

\* A snapshot carrying an answer the connection has not got: the handler calls
\* setRemoteDescription(answer) and suspends.
DocAnswerInvoke(p) ==
  /\ callState[p].callId # NoCall /\ docDirty[p]
  /\ records[callState[p].callId].exists
  /\ NeedsAnswer(p, records[callState[p].callId])
  /\ tasks' = Spawn(p, [op |-> "onSnapshot", step |-> "setRemoteDescription",
                        data |-> records[callState[p].callId],
                        pc |-> peerConnectionRef[p]])
  /\ docDirty' = [docDirty EXCEPT ![p] = FALSE]
  /\ UNCHANGED <<callState, incomingCall, localStreamRef, peerConnectionRef,
                 sessions, surfaced, records, nextCallId, watchSeen,
                 announced>>

\* The handler starts with no other task of the process suspended.
DocAnswerBegin(p) ==
  /\ TaskBudget(p)
  /\ DocAnswerInvoke(p)

\* The handler starts on the next snapshot while the handler of an earlier
\* snapshot is still awaiting setRemoteDescription: the connection has no
\* remote description yet, so the test of line 394 passes again.
DocAnswerNested(p) ==
  /\ FreeSlots(p) # {}
  /\ \E t \in Slots : tasks[p][t].op = "onSnapshot"
  /\ DocAnswerInvoke(p)

\* setRemoteDescription(answer) resolved on the connection it was called on;
\* the handler goes on with the candidates and the status.
DocAnswerApply(p, t) ==
  /\ tasks[p][t].op = "onSnapshot"
  /\ tasks[p][t].pc # 0
  /\ SignalingState(sessions[p][tasks[p][t].pc]) = "have-local-offer"
  /\ LET data == tasks[p][t].data
         set == [sessions[p] EXCEPT ![tasks[p][t].pc].remoteDescription = data.answer]
     IN  /\ sessions' = [sessions EXCEPT ![p] =
                           CandidatesAdded(set, peerConnectionRef[p], data)]
         /\ callState' = [callState EXCEPT ![p] = StatusCopied(@, data)]
  /\ tasks' = Finish(p, t)
  /\ UNCHANGED <<incomingCall, localStreamRef, peerConnectionRef, surfaced, records,
                 nextCallId, docDirty, watchSeen,
                 announced>>

\* setRemoteDescription(answer) rejected (the connection was closed, or is no
\* longer waiting for an answer): the handler ends there, nothing catches it.
DocAnswerReject(p, t) ==
  /\ tasks[p][t].op = "onSnapshot"
  /\ IF tasks[p][t].pc = 0 THEN TRUE
     ELSE SignalingState(sessions[p][tasks[p][t].pc]) # "have-local-offer"
  /\ tasks' = Finish(p, t)
  /\ UNCHANGED <<callState, incomingCall, localStreamRef, peerConnectionRef,
                 sessions, surfaced, records, nextCallId, docDirty, watchSeen,
                 announced>>

\* ------------------------------------------------------------------ specification
Next ==
  \/ \E p \in Callers : \E u \in Procs \ {p} : StartCallBegin(p, u)
  \/ \E p \in Procs, t \in Slots : StartCallMediaOk(p, t)
  \/ \E p \in Procs, t \in Slots : StartCallMediaFail(p, t)
  \/ \E p \in Procs, t \in Slots : StartCallOfferFail(p, t)
  \/ \E p \in Procs, t \in Slots : StartCallWriteOk(p, t)
  \/ \E p \in Procs, t \in Slots : StartCallWriteFail(p, t)
  \/ \E p \in Procs, s \in SessionIds : Discover(p, s)
  \/ \E p \in Procs : EndCallIdle(p)
  \/ \E p \in Procs : EndCallBegin(p)
  \/ \E p \in Procs, t \in Slots : EndCallDeleteFail(p, t)
  \/ \E p \in Procs, t \in Slots : EndCallFinish(p, t)
  \/ \E p \in Procs : AcceptCallIdle(p)
  \/ \E p \in Procs : AcceptCallBegin(p)
  \/ \E p \in Procs, t \in Slots : AcceptCallMediaOk(p, t)
  \/ \E p \in Procs, t \in Slots : AcceptCallMediaFail(p, t)
  \/ \E p \in Procs, t \in Slots : AcceptCallReadEmpty(p, t)
  \/ \E p \in Procs, t \in Slots : AcceptCallReadOk(p, t)
  \/ \E p \in Procs, t \in Slots : AcceptCallReadFail(p, t)
  \/ \E p \in Procs, t \in Slots : AcceptCallWriteOk(p, t)
  \/ \E p \in Procs, t \in Slots : AcceptCallWriteFail(p, t)
  \/ \E p \in Procs : RejectCallIdle(p)
  \/ \E p \in Procs : RejectCall(p)
  \/ \E p \in Procs : RejectCallDeleteFail(p)
  \/ \E p \in Procs : IncomingSnapshot(p)
  \/ \E p \in Procs : DocDeleted(p)
  \/ \E p \in Procs : DocChanged(p)
  \/ \E p \in Procs : DocAnswerBegin(p)
  \/ \E p \in Procs, t \in Slots : DocAnswerApply(p, t)
  \/ \E p \in Procs, t \in Slots : DocAnswerReject(p, t)

\* Two users, the caller and the callee, each issuing any command at any time.
Spec == Init /\ [][Next]_vars

\* One user alone: it places and ends calls to a user who is not online or to
\* a username no user has, so no invitation reaches it and nobody answers.
SoloNext ==
  \/ \E u \in (Procs \ {"A"}) \cup Unknown : StartCallBegin("A", u)
  \/ \E t \in Slots : StartCallMediaOk("A", t)
  \/ \E t \in Slots : StartCallMediaFail("A", t)
  \/ \E t \in Slots : StartCallOfferFail("A", t)
  \/ \E t \in Slots : StartCallWriteOk("A", t)
  \/ \E t \in Slots : StartCallWriteFail("A", t)
  \/ \E s \in SessionIds : Discover("A", s)
  \/ EndCallIdle("A")
  \/ EndCallBegin("A")
  \/ \E t \in Slots : EndCallDeleteFail("A", t)
  \/ \E t \in Slots : EndCallFinish("A", t)
  \/ DocDeleted("A")
  \/ DocChanged("A")

SpecSolo == Init /\ [][SoloNext]_vars

\* Two users with the microphone switch: calls are placed, answered, rejected
\* and ended, and either user may press mute whenever it holds a stream. Media,
\* negotiation and answer writes do not fail here and no candidate is found.
MuteNext ==
  \/ \E p \in Callers : \E u \in Procs \ {p} : StartCallBegin(p, u)
  \/ \E p \in Procs, t \in Slots : StartCallMediaOk(p, t)
  \/ \E p \in Procs, t \in Slots : StartCallWriteOk(p, t)
  \/ \E p \in Procs : EndCallBegin(p)
  \/ \E p \in Procs, t \in Slots : EndCallDeleteFail(p, t)
  \/ \E p \in Procs, t \in Slots : EndCallFinish(p, t)
  \/ \E p \in Procs : AcceptCallBegin(p)
  \/ \E p \in Procs, t \in Slots : AcceptCallMediaOk(p, t)
  \/ \E p \in Procs, t \in Slots : AcceptCallReadEmpty(p, t)
  \/ \E p \in Procs, t \in Slots : AcceptCallReadOk(p, t)
  \/ \E p \in Procs, t \in Slots : AcceptCallWriteOk(p, t)
  \/ \E p \in Procs, t \in Slots : AcceptCallWriteFail(p, t)
  \/ \E p \in Procs : RejectCall(p)
  \/ \E p \in Procs : ToggleMute(p)
  \/ \E p \in Procs : IncomingSnapshot(p)
  \/ \E p \in Procs : DocDeleted(p)
  \/ \E p \in Procs : DocChanged(p)
  \/ \E p \in Procs : DocAnswerBegin(p)
  \/ \E p \in Procs, t \in Slots : DocAnswerApply(p, t)
  \/ \E p \in Procs, t \in Slots : DocAnswerReject(p, t)

SpecMute == Init /\ [][MuteNext]_vars

\* Glare: both users place calls, to each other, at any time, and answer,
\* reject and end them. Media, negotiation and writes do not fail here, apart
\* from the answer written to a document that is gone, and no candidate is
\* found.
GlareNext ==
  \/ \E p \in Procs : \E u \in Procs \ {p} : StartCallBegin(p, u)
  \/ \E p \in Procs, t \in Slots : StartCallMediaOk(p, t)
  \/ \E p \in Procs, t \in Slots : StartCallWriteOk(p, t)
  \/ \E p \in Procs : EndCallBegin(p)
  \/ \E p \in Procs, t \in Slots : EndCallDeleteFail(p, t)
  \/ \E p \in Procs, t \in Slots : EndCallFinish(p, t)
  \/ \E p \in Procs : AcceptCallBegin(p)
  \/ \E p \in Procs, t \in Slots : AcceptCallMediaOk(p, t)
  \/ \E p \in Procs, t \in Slots : AcceptCallReadEmpty(p, t)
  \/ \E p \in Procs, t \in Slots : AcceptCallReadOk(p, t)
  \/ \E p \in Procs, t \in Slots : AcceptCallWriteOk(p, t)
  \/ \E p \in Procs, t \in Slots : AcceptCallWriteFail(p, t)
  \/ \E p \in Procs : RejectCall(p)
  \/ \E p \in Procs : IncomingSnapshot(p)
  \/ \E p \in Procs : DocDeleted(p)
  \/ \E p \in Procs : DocChanged(p)
  \/ \E p \in Procs : DocAnswerBegin(p)
  \/ \E p \in Procs, t \in Slots : DocAnswerApply(p, t)
  \/ \E p \in Procs, t \in Slots : DocAnswerReject(p, t)

SpecGlare == Init /\ [][GlareNext]_vars

\* One user alone who does not wait for startCall to settle before invoking it
\* again.
OverlapNext ==
  \/ SoloNext
  \/ \E u \in Procs \ {"A"} : StartCallNested("A", u)

SpecOverlap == Init /\ [][OverlapNext]_vars

\* One call that is answered while both sides trickle candidates: the caller's
\* handler may start on the next snapshot before its run on the previous one
\* has ended. Media, negotiation and writes do not fail here.
AnswerNext ==
  \/ \E u \in Procs \ {"A"} : StartCallBegin("A", u)
  \/ \E t \in Slots : StartCallMediaOk("A", t)
  \/ \E t \in Slots : StartCallWriteOk("A", t)
  \/ \E p \in Procs, s \in SessionIds : Discover(p, s)
  \/ IncomingSnapshot("B")
  \/ AcceptCallBegin("B")
  \/ \E t \in Slots : AcceptCallMediaOk("B", t)
  \/ \E t \in Slots : AcceptCallReadOk("B", t)
  \/ \E t \in Slots : AcceptCallWriteOk("B", t)
  \/ \E p \in Procs : EndCallBegin(p)
  \/ \E p \in Procs, t \in Slots : EndCallDeleteFail(p, t)
  \/ \E p \in Procs, t \in Slots : EndCallFinish(p, t)
  \/ \E p \in Procs : DocDeleted(p)
  \/ \E p \in Procs : DocChanged(p)
  \/ \E p \in Procs : DocAnswerBegin(p)
  \/ \E p \in Procs : DocAnswerNested(p)
  \/ \E p \in Procs, t \in Slots : DocAnswerApply(p, t)
  \/ \E p \in Procs, t \in Slots : DocAnswerReject(p, t)

SpecAnswer == Init /\ [][AnswerNext]_vars

\* One caller whose connection trickles several candidates, and one callee who
\* accepts at any time: before, between or after them. Nothing fails here and
\* no call is ended.
TrickleNext ==
  \/ \E u \in Procs \ {"A"} : StartCallBegin("A", u)
  \/ \E t \in Slots : StartCallMediaOk("A", t)
  \/ \E t \in Slots : StartCallWriteOk("A", t)
  \/ \E p \in Procs, s \in SessionIds : Discover(p, s)
  \/ \E s \in SessionIds : DiscoverAgain("A", s)
  \/ IncomingSnapshot("B")
  \/ AcceptCallBegin("B")
  \/ \E t \in Slots : AcceptCallMediaOk("B", t)
  \/ \E t \in Slots : AcceptCallReadOk("B", t)
  \/ \E t \in Slots : AcceptCallWriteOk("B", t)
  \/ \E p \in Procs : DocChanged(p)
  \/ \E p \in Procs : DocAnswerBegin(p)
  \/ \E p \in Procs, t \in Slots : DocAnswerApply(p, t)

SpecTrickle == Init /\ [][TrickleNext]_vars

\* The same, with candidates among the caller's that the callee's connection
\* refuses.
RefusedNext ==
  \/ \E u \in Procs \ {"A"} : StartCallBegin("A", u)
  \/ \E t \in Slots : StartCallMediaOk("A", t)
  \/ \E t \in Slots : StartCallWriteOk("A", t)
  \/ \E s \in SessionIds : Discover("A", s)
  \/ \E s \in SessionIds : DiscoverAgain("A", s)
  \/ \E s \in SessionIds : DiscoverRejected("A", s)
  \/ IncomingSnapshot("B")
  \/ AcceptCallBegin("B")
  \/ \E t \in Slots : AcceptCallMediaOk("B", t)
  \/ \E t \in Slots : AcceptCallReadOk("B", t)
  \/ \E t \in Slots : AcceptCallWriteOk("B", t)
  \/ \E p \in Procs : DocChanged(p)
  \/ \E p \in Procs : DocAnswerBegin(p)
  \/ \E p \in Procs, t \in Slots : DocAnswerApply(p, t)

SpecRefused == Init /\ [][RefusedNext]_vars

\* ------------------------------------------------------------------ properties
\* What a command may not touch when it is refused.
Untouched ==
  UNCHANGED <<callState, incomingCall, localStreamRef, peerConnectionRef,
              sessions, tasks, records>>

\* C1: startCall issued while callState.status is not idle is refused with
\* CallInProgress and has no effect: no stream is acquired, no connection is
\* built, no call document is written.
C1_StartCallRefusedUnlessIdle ==
  [][\A p \in Procs : \A u \in Procs :
       (StartCallBegin(p, u) /\ callState[p].status # "idle")
         => (surfaced'[p] = "CallInProgress" /\ Untouched)]_vars

\* C2: for a user that no invitation reaches, every startCall that succeeds
\* takes the status from idle to calling, every endCall that completes leaves it
\* idle, and the status changes in no other way than idle -> calling -> idle.
C2_IdleCallingIdle ==
  [][/\ \A t \in Slots :
          StartCallWriteOk("A", t)
            => (callState["A"].status = "idle" /\ callState'["A"].status = "calling")
     /\ \A t \in Slots :
          (EndCallFinish("A", t) \/ EndCallDeleteFail("A", t))
            => callState'["A"].status = "idle"
     /\ callState'["A"].status # callState["A"].status
          => <<callState["A"].status, callState'["A"].status>>
               \in {<<"idle", "calling">>, <<"calling", "idle">>}]_vars

\* C3: acceptCall issued while callState.status is not incoming is refused with
\* NoIncomingCall and has no effect.
C3_AcceptCallRefusedUnlessIncoming ==
  [][\A p \in Procs :
       (AcceptCallBegin(p) /\ callState[p].status # "incoming")
         => (surfaced'[p] = "NoIncomingCall" /\ Untouched)]_vars

\* C4: once an endCall issued in status calling or connected has completed, no
\* stream of the process is capturing, its stream ref is null, no connection of
\* it is open, the call document is gone and the status is idle.
C4_EndCallReleasesEverything ==
  [][\A p \in Procs : \A t \in Slots :
       (/\ EndCallFinish(p, t) \/ EndCallDeleteFail(p, t)
        /\ callState[p].status \in {"calling", "connected"})
         => /\ \A i \in SessionIds : ~sessions'[p][i].live /\ ~sessions'[p][i].open
            /\ localStreamRef'[p] = 0
            /\ peerConnectionRef'[p] = 0
            /\ ~records'[tasks[p][t].callId].exists
            /\ callState'[p].status = "idle"]_vars

\* C5: no connection is handed a remote candidate it has already been given,
\* however many snapshots of the call document carry that candidate.
C5_CandidatesAppliedOnce ==
  \A p \in Procs : \A i \in SessionIds : ~sessions[p][i].repeated
\* C6: when the snapshot handler finds the watched document deleted while the
\* status is connected, that one handler run leaves the status idle, no stream
\* of the process capturing and no connection of it open.
C6_DeletionWhileConnected ==
  [][\A p \in Procs :
       (DocDeleted(p) /\ callState[p].status = "connected")
         => /\ callState'[p].status = "idle"
            /\ \A i \in SessionIds : ~sessions'[p][i].live /\ ~sessions'[p][i].open]_vars

\* C7: a startCall that succeeds from status idle creates one call document, it
\* alone, with status calling, the caller's offer and the callee's name, and the
\* caller's status becomes calling; the callee's watcher, on finding a document
\* new to its query, sets incomingCall to that document's id and caller name
\* and the callee's status to incoming.
C7_CallIsPlacedAndAnnounced ==
  [][/\ \A p \in Procs : \A t \in Slots :
          (StartCallWriteOk(p, t) /\ callState[p].status = "idle")
            => LET id == tasks[p][t].callId
               IN  /\ ~records[id].exists
                   /\ records'[id].exists
                   /\ \A other \in CallIds \ {id} : records'[other] = records[other]
                   /\ records'[id].status = "calling"
                   /\ records'[id].offer = [type |-> "offer", by |-> p, for |-> id]
                   /\ records'[id].callerUsername = p
                   /\ records'[id].calleeUsername = tasks[p][t].username
                   /\ callState'[p].status = "calling"
                   /\ callState'[p].callId = id
     /\ \A q \in Procs :
          (IncomingSnapshot(q) /\ Qualifying(q) \ watchSeen[q] # {})
            => /\ incomingCall'[q].callId \in Qualifying(q) \ watchSeen[q]
               /\ incomingCall'[q].callerUsername
                    = records[incomingCall'[q].callId].callerUsername
               /\ incomingCall'[q].callId.uid = incomingCall'[q].callerUsername
               /\ callState'[q].status = "incoming"]_vars

\* A has placed its call to B from idle, the document is the only one, and B's
\* watcher has announced it.
C7_Witness ==
  \E id \in CallIds :
    /\ {x \in CallIds : records[x].exists} = {id}
    /\ records[id].status = "calling"
    /\ records[id].callerId = "A"
    /\ records[id].calleeUsername = "B"
    /\ records[id].offer = [type |-> "offer", by |-> "A", for |-> id]
    /\ callState["A"] = CallingState("A", id, "B")
    /\ incomingCall["B"] = [callId |-> id, callerUsername |-> "A"]
    /\ callState["B"].status = "incoming"

\* C8: an acceptCall that succeeds from status incoming writes the callee's
\* answer and status connected into the call document and sets the callee's
\* status to connected; a caller in status calling whose snapshot handler finds
\* the answer ends that handler run with the answer as remote description of
\* its connection and with status connected.
C8_AnswerConnectsBothSides ==
  [][/\ \A p \in Procs : \A t \in Slots :
          (AcceptCallWriteOk(p, t) /\ callState[p].status = "incoming")
            => LET id == tasks[p][t].incomingCall.callId
               IN  /\ records'[id].answer = [type |-> "answer", by |-> p, for |-> id]
                   /\ records'[id].status = "connected"
                   /\ callState'[p].status = "connected"
     /\ \A p \in Procs :
          (/\ DocChanged(p)
           /\ callState[p].status = "calling"
           /\ records[callState[p].callId].answer # NoDesc)
            => /\ callState'[p].status = "connected"
               /\ peerConnectionRef[p] # 0
               /\ sessions'[p][peerConnectionRef[p]].remoteDescription
                    = records[callState[p].callId].answer
     /\ \A p \in Procs : \A t \in Slots :
          (DocAnswerApply(p, t) /\ callState[p].status = "calling")
            => /\ callState'[p].status = "connected"
               /\ tasks[p][t].data.answer.for = callState[p].callId
               /\ sessions'[p][tasks[p][t].pc].remoteDescription
                    = tasks[p][t].data.answer
               /\ sessions[p][tasks[p][t].pc].callDocRef = callState[p].callId
     /\ \A p \in Procs : \A t \in Slots :
          DocAnswerReject(p, t) => callState[p].status # "calling"]_vars

\* C9: rejectCall issued in status incoming deletes the call document and leaves
\* the callee idle, having acquired no stream and built no connection; the
\* caller's snapshot handler, finding the document deleted in status calling,
\* leaves the caller idle with no stream capturing and no connection open.
C9_RejectEndsTheCall ==
  [][/\ \A p \in Procs :
          (RejectCall(p) /\ callState[p].status = "incoming")
            => /\ ~records'[incomingCall[p].callId].exists
               /\ callState'[p].status = "idle"
               /\ UNCHANGED <<sessions, localStreamRef, peerConnectionRef>>
     /\ \A p \in Procs :
          (/\ DocDeleted(p)
           /\ callState[p].status = "calling"
           /\ AtStep(p, "endCall", "deleteDoc") = {})
            => /\ callState'[p].status = "idle"
               /\ \A i \in SessionIds : ~sessions'[p][i].live /\ ~sessions'[p][i].open]_vars

\* C10: when startCall or acceptCall fails at any step, the process is left with
\* status idle, no pending invitation, no stream capturing and no connection
\* open, and the failure is thrown to the command's caller.
C10_FailureRollsBack ==
  [][\A p \in Procs : \A t \in Slots :
       (\/ StartCallMediaFail(p, t) \/ StartCallOfferFail(p, t)
        \/ StartCallWriteFail(p, t) \/ AcceptCallMediaFail(p, t)
        \/ AcceptCallReadFail(p, t) \/ AcceptCallWriteFail(p, t))
         => /\ callState'[p].status = "idle"
            /\ incomingCall'[p] = NoIncoming
            /\ \A i \in SessionIds : ~sessions'[p][i].live /\ ~sessions'[p][i].open
            /\ surfaced'[p] # "none"]_vars

\* C11: a process never has more than one stream capturing nor more than one
\* connection open: building a new pair leaves no earlier pair behind.
C11_AtMostOneSession ==
  \A p \in Procs :
    /\ Cardinality({i \in SessionIds : sessions[p][i].live}) <= 1
    /\ Cardinality({i \in SessionIds : sessions[p][i].open}) <= 1

\* C12: the snapshot handler that finds the watched document deleted runs
\* cleanup() on what the refs hold and leaves the status idle, whatever the
\* status was; and a callee in status incoming whose watcher is told that the
\* invitation's document is gone (the caller cancelled) has its invitation
\* cleared and its status set to idle.
C12_DeletionEndsAnyActiveState ==
  [][/\ \A p \in Procs :
          DocDeleted(p)
            => /\ callState'[p] = IdleState
               /\ localStreamRef'[p] = 0 /\ peerConnectionRef'[p] = 0
               /\ localStreamRef[p] # 0 => ~sessions'[p][localStreamRef[p]].live
               /\ peerConnectionRef[p] # 0 => ~sessions'[p][peerConnectionRef[p]].open
     /\ \A q \in Procs :
          (/\ IncomingSnapshot(q)
           /\ callState[q].status = "incoming"
           /\ incomingCall[q] # NoIncoming
           /\ ~records[incomingCall[q].callId].exists
           /\ Qualifying(q) \ watchSeen[q] = {})
            => /\ incomingCall'[q] = NoIncoming
               /\ callState'[q].status = "idle"]_vars

\* C13: the watcher announces a document at most once, and only a document
\* that, in the snapshot it is announced from, exists with status calling and is
\* addressed to the local user: a document announced before and changed since
\* is not announced again, an answered or deleted document is not announced.
C13_AnnouncedOnce ==
  [][\A q \in Procs : \A id \in CallIds :
       announced'[q][id] # announced[q][id]
         => /\ announced[q][id] = 0
            /\ announced'[q][id] = 1
            /\ records[id].exists
            /\ records[id].status = "calling"
            /\ records[id].answer = NoDesc
            /\ records[id].calleeUsername = q]_vars

\* B's watcher announced a first document, which has since been changed (A's
\* candidates, B's answer) and has left the query; a later snapshot, delivered
\* after that, announced a second document and did not announce the first again.
C13_Witness ==
  \E id1 \in CallIds : \E id2 \in CallIds \ {id1} :
    /\ announced["B"][id1] = 1 /\ announced["B"][id2] = 1
    /\ records[id1].exists /\ records[id1].status = "connected"
    /\ records[id1].iceCandidates # << >>
    /\ watchSeen["B"] = {id2}
    /\ incomingCall["B"].callId = id2

\* C14: rejectCall acts only in status incoming, where it deletes the
\* invitation's document, leaves the status idle, acquires no stream and builds
\* no connection, changes none that exists and leaves none behind capturing or
\* open; in any other status it is refused and changes nothing. (Stated for a
\* rejectCall issued while no other command of the process is in flight.)
C14_RejectOnlyFromIncoming ==
  [][\A p \in Procs :
       (RejectCall(p) /\ CommandsInFlight(p) = {})
         => IF callState[p].status = "incoming"
            THEN /\ ~records'[incomingCall[p].callId].exists
                 /\ callState'[p].status = "idle"
                 /\ UNCHANGED <<sessions, localStreamRef, peerConnectionRef>>
                 /\ \A i \in SessionIds :
                      ~sessions'[p][i].live /\ ~sessions'[p][i].open
            ELSE Untouched]_vars

\* C15: toggleMute inverts the enabled flag of the referenced stream's audio
\* track and sets isMuted to the negation of the new flag; it leaves status,
\* callId, the call documents, the refs and everything else of the streams and
\* connections as they were; and in status connected a second toggleMute right
\* after it (which sets isMuted to the flag the first one left, negated twice
\* over) gives back the isMuted the first one found.
C15_ToggleMuteFlipsOnlyMute ==
  [][\A p \in Procs :
       ToggleMute(p)
         => LET ls == localStreamRef[p]
            IN  /\ sessions'[p][ls].enabled = ~sessions[p][ls].enabled
                /\ callState'[p].isMuted = ~sessions'[p][ls].enabled
                /\ sessions' = [sessions EXCEPT ![p][ls].enabled = ~@]
                /\ callState' = [callState EXCEPT ![p].isMuted = callState'[p].isMuted]
                /\ UNCHANGED <<records, localStreamRef, peerConnectionRef,
                               incomingCall, tasks>>
                /\ callState[p].status = "connected"
                     => sessions'[p][ls].enabled = callState[p].isMuted]_vars

\* C16: when getUserMedia is rejected in a startCall issued in status idle, the
\* command throws MediaUnavailable to its caller, and no connection has been
\* built, no call document written, no subscription opened and the status is
\* still idle.
C16_MediaFailureIsThrown ==
  [][\A p \in Procs : \A t \in Slots :
       (StartCallMediaFail(p, t) /\ callState[p].status = "idle")
         => /\ surfaced'[p] = "MediaUnavailable"
            /\ \A i \in SessionIds : sessions[p][i].open = sessions'[p][i].open
            /\ UNCHANGED <<records, docDirty, callState>>]_vars

\* C17: startCall with a username that no user has is refused with
\* UnknownRecipient before getUserMedia is called, and nothing is created.
C17_UnknownRecipientRefused ==
  [][\A p \in Procs : \A u \in Unknown :
       StartCallBegin(p, u) => (surfaced'[p] = "UnknownRecipient" /\ Untouched)]_vars

\* C18: when both users place calls to each other, every setDoc of a startCall
\* creates a document of its own, under an id that carries its caller's uid and
\* that no document had, and changes no other document; each watcher announces
\* each document addressed to its user once, as long as that document is
\* ringing: an unannounced ringing document is always one the watcher has a
\* snapshot pending for.
C18_GlareKeepsBothCalls ==
  [][/\ \A p \in Procs : \A t \in Slots :
          StartCallWriteOk(p, t)
            => LET id == tasks[p][t].callId
               IN  /\ id.uid = p
                   /\ ~records[id].exists
                   /\ records'[id].exists /\ records'[id].callerId = p
                   /\ \A other \in CallIds \ {id} : records'[other] = records[other]
     /\ \A q \in Procs :
          IncomingSnapshot(q)
            => LET added == Qualifying(q) \ watchSeen[q]
               IN  /\ \A id \in added :
                        /\ id.uid # q
                        /\ announced[q][id] = 0 /\ announced'[q][id] = 1
                   /\ added # {}
                        => /\ incomingCall'[q].callId \in added
                           /\ callState'[q].status = "incoming"
     /\ \A q \in Procs : \A id \in CallIds :
          (/\ records'[id].exists
           /\ records'[id].calleeUsername = q
           /\ records'[id].status = "calling"
           /\ announced'[q][id] = 0)
            => id \notin watchSeen'[q]]_vars

\* A glare: A's call to B and B's call to A both exist and ring, each under its
\* caller's id, and each user has been told of the other's call.
C18_Witness ==
  \E a \in CallIds : \E b \in CallIds :
    /\ a.uid = "A" /\ b.uid = "B"
    /\ records[a].exists /\ records[a].status = "calling"
    /\ records[a].calleeUsername = "B"
    /\ records[b].exists /\ records[b].status = "calling"
    /\ records[b].calleeUsername = "A"
    /\ callState["A"].callId = a /\ callState["B"].callId = b
    /\ announced["A"][b] = 1 /\ announced["B"][a] = 1
    /\ incomingCall["A"] = [callId |-> b, callerUsername |-> "B"]
    /\ incomingCall["B"] = [callId |-> a, callerUsername |-> "A"]

\* C19: while two startCall / acceptCall invocations of one process overlap,
\* the process still has at most one stream capturing, at most one connection
\* open and at most one call document of its own.
C19_NoNestedNegotiation ==
  \A p \in Procs :
    Cardinality({t \in Slots : tasks[p][t].op \in {"startCall", "acceptCall"}}) > 1
      => /\ Cardinality({i \in SessionIds : sessions[p][i].live}) <= 1
         /\ Cardinality({i \in SessionIds : sessions[p][i].open}) <= 1
         /\ Cardinality({id \in CallIds : /\ records[id].exists
                                          /\ records[id].callerId = p}) <= 1

\* C20: whenever a command's write to the call document is rejected (the setDoc
\* of startCall, the updateDoc of acceptCall, the deleteDoc of endCall), the
\* command leaves the process idle, with both refs empty and the stream it
\* held no longer capturing and the connection it held closed.
C20_RejectedWriteAbortsTheCall ==
  [][\A p \in Procs : \A t \in Slots :
       (\/ StartCallWriteFail(p, t) \/ AcceptCallWriteFail(p, t)
        \/ EndCallDeleteFail(p, t))
         => /\ callState'[p].status = "idle"
            /\ localStreamRef'[p] = 0 /\ peerConnectionRef'[p] = 0
            /\ localStreamRef[p] # 0 => ~sessions'[p][localStreamRef[p]].live
            /\ peerConnectionRef[p] # 0 => ~sessions'[p][peerConnectionRef[p]].open]_vars

\* C21: events are handled one at a time inside a process: while a snapshot
\* handler of the process has started and not yet ended, the process begins
\* the handling of no other snapshot and of no user command.
C21_OneEventAtATime ==
  [][\A p \in Procs :
       (\E t \in Slots : tasks[p][t].op = "onSnapshot")
         => ~(\/ DocChanged(p) \/ DocDeleted(p) \/ DocAnswerBegin(p)
              \/ IncomingSnapshot(p)
              \/ RejectCall(p) \/ EndCallBegin(p) \/ AcceptCallBegin(p)
              \/ \E u \in Procs : StartCallBegin(p, u))]_vars

\* C22: the answer is set as remote description at most once per connection,
\* and a snapshot that carries the answer again raises no error: no call of
\* setRemoteDescription is rejected on a connection that is open and already
\* has that same answer as its remote description.
C22_AnswerAppliedOnce ==
  [][\A p \in Procs : \A t \in Slots :
       (DocAnswerReject(p, t) /\ tasks[p][t].pc # 0)
         => sessions[p][tasks[p][t].pc].remoteDescription
              # tasks[p][t].data.answer]_vars

\* C23: once a connection of a process has discovered n candidates and its call
\* document exists, the field of the document that process publishes to holds
\* exactly those n candidates, in the order they were discovered, whether they
\* were discovered before or after the document was created.
C23_FullListRepublished ==
  \A p \in Procs : \A s \in SessionIds :
    LET ses == sessions[p][s]
        id == ses.callDocRef
        own == [k \in 1 .. ses.found |->
                  [by |-> p, for |-> id, n |-> k, ok |-> TRUE]]
    IN  (/\ ses.open /\ ses.found > 0
         /\ id # NoCall /\ records[id].exists)
          => IF ses.field = "iceCandidates"
             THEN records[id].iceCandidates = own
             ELSE records[id].answerIceCandidates = own

\* C24: every candidate one party has published is applied to the connection
\* of the other party while the call is active. Stated where nothing is left
\* to run: when both parties are connected on the same call, every snapshot
\* has been handled and no task is suspended, the caller's connection has been
\* given each candidate of the callee and the callee's connection each
\* candidate of the caller.
C24_CandidatesReachTheOtherParty ==
  \A id \in CallIds : \A p \in Procs : \A q \in Procs \ {p} :
    (/\ records[id].exists /\ records[id].callerId = p
     /\ callState[p].callId = id /\ callState[p].status = "connected"
     /\ callState[q].callId = id /\ callState[q].status = "connected"
     /\ peerConnectionRef[p] # 0 /\ peerConnectionRef[q] # 0
     /\ ~docDirty[p] /\ ~docDirty[q]
     /\ FreeSlots(p) = Slots /\ FreeSlots(q) = Slots)
      => /\ \A c \in Range(records[id].answerIceCandidates) :
              c.by = q => c \in Range(sessions[p][peerConnectionRef[p]].applied)
         /\ \A c \in Range(records[id].iceCandidates) :
              c \in Range(sessions[q][peerConnectionRef[q]].applied)

\* C25: acceptCall sets the callee's connection up in this order. The step that
\* follows the read of the document sets the stored offer as remote description
\* first, so that every candidate the caller has stored is then accepted by the
\* connection, in stored order, and produces the answer as local description,
\* while acceptCall has not yet touched the document, the status or the
\* invitation. The step in which the write resolves puts that answer and status
\* connected into the document, and it is that step of acceptCall, no earlier
\* one, that makes the callee connected on this call and clears the invitation.
C25_AcceptCallOrder ==
  [][\A p \in Procs : \A t \in Slots :
       /\ AcceptCallMediaOk(p, t)
            => UNCHANGED <<records, callState, incomingCall>>
       /\ AcceptCallReadOk(p, t)
            => LET id == tasks[p][t].incomingCall.callId
                   pc == peerConnectionRef[p]
               IN  /\ sessions'[p][pc].remoteDescription = records[id].offer
                   /\ records[id].offer.type = "offer"
                   /\ LET stored == records[id].iceCandidates
                           applied == sessions'[p][pc].applied
                       IN  \A i \in DOMAIN stored :
                             \E k \in DOMAIN applied :
                               /\ applied[k] = stored[i]
                               /\ \A j \in DOMAIN stored :
                                    i < j => \E m \in DOMAIN applied :
                                               m > k /\ applied[m] = stored[j]
                   /\ sessions'[p][pc].localDescription
                        = [type |-> "answer", by |-> p, for |-> id]
                   /\ tasks'[p][t].answer = sessions'[p][pc].localDescription
                   /\ UNCHANGED <<records, callState, incomingCall>>
       /\ AcceptCallWriteOk(p, t)
            => LET id == tasks[p][t].incomingCall.callId
               IN  /\ records'[id].answer = tasks[p][t].answer
                   /\ records'[id].status = "connected"
                   /\ callState'[p].status = "connected"
                   /\ callState'[p].callId = id
                   /\ incomingCall'[p] = NoIncoming]_vars

\* B has accepted A's call after A had stored two candidates: B is connected,
\* its connection holds the offer, the answer and both candidates in stored
\* order, and the document carries the answer.
C25_Witness ==
  \E id \in CallIds :
    /\ callState["B"].callId = id /\ callState["B"].status = "connected"
    /\ incomingCall["B"] = NoIncoming
    /\ peerConnectionRef["B"] # 0
    /\ records[id].exists /\ records[id].status = "connected"
    /\ Len(records[id].iceCandidates) = MaxTrickled
    /\ LET ses == sessions["B"][peerConnectionRef["B"]]
       IN  /\ ses.remoteDescription = records[id].offer
           /\ ses.applied = records[id].iceCandidates
           /\ ses.localDescription = records[id].answer
           /\ ses.localDescription.type = "answer"

\* C26: a candidate the connection refuses is dropped and nothing else happens.
\* When acceptCall or the snapshot handler hands a list of stored candidates to
\* a connection that has its remote description, the connection ends up with
\* every candidate of the list it can use, the ones behind a refused candidate
\* included, and with none it refused; the connection is otherwise as it was,
\* the refs and the call documents are unchanged, and the status changes only
\* as the status field of the snapshot says.
C26_RefusedCandidateIsDropped ==
  [][\A p \in Procs :
       /\ \A t \in Slots :
            AcceptCallReadOk(p, t)
              => LET pc == peerConnectionRef[p]
                     stored == records[tasks[p][t].incomingCall.callId].iceCandidates
                 IN  /\ \A c \in Range(stored) :
                          /\ c.ok => c \in Range(sessions'[p][pc].applied)
                          /\ ~c.ok => c \notin Range(sessions'[p][pc].applied)
                     /\ sessions'[p][pc].open /\ sessions'[p][pc].live
                     /\ UNCHANGED <<callState, localStreamRef, peerConnectionRef,
                                    records>>
       /\ (/\ DocChanged(p) /\ peerConnectionRef[p] # 0
           /\ sessions[p][peerConnectionRef[p]].remoteDescription # NoDesc)
            => LET pc == peerConnectionRef[p]
                   data == records[callState[p].callId]
               IN  /\ \A c \in Range(data.iceCandidates) :
                        /\ c.ok => c \in Range(sessions'[p][pc].applied)
                        /\ ~c.ok => c \notin Range(sessions'[p][pc].applied)
                   /\ [sessions'[p][pc] EXCEPT !.applied = << >>, !.repeated = FALSE]
                        = [sessions[p][pc] EXCEPT !.applied = << >>, !.repeated = FALSE]
                   /\ callState'[p] = StatusCopied(callState[p], data)
                   /\ UNCHANGED <<localStreamRef, peerConnectionRef, records>>
       /\ \A t \in Slots :
            (/\ DocAnswerApply(p, t) /\ peerConnectionRef[p] # 0
             /\ peerConnectionRef[p] = tasks[p][t].pc)
              => LET pc == peerConnectionRef[p]
                     data == tasks[p][t].data
                 IN  /\ \A c \in Range(data.iceCandidates) :
                          /\ c.ok => c \in Range(sessions'[p][pc].applied)
                          /\ ~c.ok => c \notin Range(sessions'[p][pc].applied)
                     /\ sessions'[p][pc].open /\ sessions'[p][pc].live
                     /\ callState'[p] = StatusCopied(callState[p], data)
                     /\ UNCHANGED <<localStreamRef, peerConnectionRef, records>>]_vars

\* B is connected on a call whose document stores a candidate B's connection
\* refuses followed by one it can use, and B's connection holds the second one
\* alone.
C26_Witness ==
  \E id \in CallIds :
    /\ callState["B"].callId = id /\ callState["B"].status = "connected"
    /\ peerConnectionRef["B"] # 0
    /\ records[id].exists
    /\ Len(records[id].iceCandidates) = 2
    /\ ~records[id].iceCandidates[1].ok
    /\ records[id].iceCandidates[2].ok
    /\ sessions["B"][peerConnectionRef["B"]].applied = <<records[id].iceCandidates[2]>>
    /\ sessions["B"][peerConnectionRef["B"]].open
    /\ localStreamRef["B"] # 0

\* C27: the two parties of a call never write the same candidate field of its
\* document. The field iceCandidates of an existing document is changed only
\* by a candidate publish of the document's caller and the field
\* answerIceCandidates only by a candidate publish of its callee, so the
\* caller's field never holds anything but the caller's candidates.
C27_OneFieldPerParty ==
  [][\A id \in CallIds :
       (records[id].exists /\ records'[id].exists)
         => /\ records'[id].iceCandidates # records[id].iceCandidates
                 => /\ \E s \in SessionIds :
                         \/ Discover(records[id].callerId, s)
                         \/ DiscoverAgain(records[id].callerId, s)
                         \/ DiscoverRejected(records[id].callerId, s)
                    /\ records'[id].answerIceCandidates
                         = records[id].answerIceCandidates
            /\ records'[id].answerIceCandidates # records[id].answerIceCandidates
                 => /\ records[id].calleeUsername # records[id].callerId
                    /\ \E s \in SessionIds :
                         \/ Discover(records[id].calleeUsername, s)
                         \/ DiscoverAgain(records[id].calleeUsername, s)
                         \/ DiscoverRejected(records[id].calleeUsername, s)
                    /\ records'[id].iceCandidates = records[id].iceCandidates
            /\ \A c \in Range(records'[id].iceCandidates) :
                 c.by = records[id].callerId]_vars

\* Both parties of one call have published: the caller's field holds a
\* candidate of the caller and the callee's field one of the callee.
C27_Witness ==
  \E id \in CallIds :
    /\ records[id].exists
    /\ records[id].iceCandidates # << >>
    /\ \A c \in Range(records[id].iceCandidates) : c.by = records[id].callerId
    /\ \E c \in Range(records[id].answerIceCandidates) :
         c.by = records[id].calleeUsername

\* C28: whenever the status of a process is idle and none of its commands is
\* in flight, it holds nothing: both refs are null, callId is null and isMuted
\* is false.
C28_IdleHoldsNothing ==
  \A p \in Procs :
    (callState[p].status = "idle" /\ CommandsInFlight(p) = {})
      => /\ localStreamRef[p] = 0
         /\ peerConnectionRef[p] = 0
         /\ callState[p].callId = NoCall
         /\ ~callState[p].isMuted

\* C29: an invitation that reaches a process whose status is calling or
\* connected leaves its call as it is: the status does not become incoming,
\* and callId, both refs and the sessions are unchanged.
C29_InvitationDoesNotDisturb ==
  [][\A p \in Procs :
       (IncomingSnapshot(p) /\ callState[p].status \in {"calling", "connected"})
         => /\ callState'[p].status = callState[p].status
            /\ callState'[p].callId = callState[p].callId
            /\ UNCHANGED <<localStreamRef, peerConnectionRef, sessions>>]_vars

\* C30: the two observables agree. The status of a process is incoming exactly
\* when its incomingCall is set, and, once its watcher has delivered every
\* change of its query, the document incomingCall names exists with status
\* calling.
C30_ObservablesAgree ==
  \A p \in Procs :
    /\ callState[p].status = "incoming" <=> incomingCall[p] # NoIncoming
    /\ (incomingCall[p] # NoIncoming /\ Qualifying(p) = watchSeen[p])
         => /\ records[incomingCall[p].callId].exists
            /\ records[incomingCall[p].callId].status = "calling"

\* C31: a connection is only ever given candidates of the other party: no
\* connection of a process holds, among the remote candidates it was handed, a
\* candidate that process discovered and published itself.
C31_OnlyRemoteCandidates ==
  \A p \in Procs : \A s \in SessionIds :
    \A c \in Range(sessions[p][s].applied) : c.by # p

\* C32: no orphaned invitation survives. No step leaves a call document in the
\* store while its caller is idle with no command in flight, and a document
\* comes into existence only by the setDoc of a startCall: a candidate
\* published after the deletion does not create it again.
C32_NoOrphanedInvitation ==
  [][\A id \in CallIds :
       /\ records'[id].exists
            => ~(/\ callState'[records'[id].callerId].status = "idle"
                 /\ \A t \in Slots :
                      tasks'[records'[id].callerId][t].op
                        \notin {"startCall", "acceptCall", "endCall"})
       /\ (~records[id].exists /\ records'[id].exists)
            => \E p \in Procs, t \in Slots : StartCallWriteOk(p, t)]_vars

====
